---- MODULE Spec2Model ----
(***************************************************************************)
(* World vaccination coverage ETL: the batch pipeline of etl_pipeline.py   *)
(* (run_etl, run_analysis, __main__) and the Streamlit script of           *)
(* streamlit_app.py, over a SQLite store with the tables owid_raw and      *)
(* immunization.                                                           *)
(*                                                                         *)
(* A data frame is [columns, rows]: the column names in order and the rows *)
(* as tuples of cells in column order.  A cell is <<>> (NaN / SQL NULL) or *)
(* <<v>>.  Column names, countries and file names are strings.             *)
(*                                                                         *)
(* The t statistic, the p-value and the confidence intervals are floating  *)
(* point results of scipy that are only printed; the model keeps the gate  *)
(* that decides whether they are computed and the windows they are         *)
(* computed from.                                                          *)
(***************************************************************************)
EXTENDS Integers, Sequences, FiniteSets, TLC

VARIABLES
    upstream,   \* the HTTP body the OWID server serves at the moment
    db,         \* vaccination.db: [exists, raw, clean]
    pc,         \* pc[p]: the statement process p is at
    cont,       \* cont[p]: the statement that follows the run_etl() call in progress
    loc,        \* loc[p]: run_etl's locals resp, df, df_tidy
    rv,         \* rv[p]: how the latest run_etl() call of p ended: "none", "True", "raised"
    hist,       \* hist[p]: the store at entry of the run_etl() call in progress, how its GET ended, the GETs it issued
    argv,       \* the command line of the batch program
    out,        \* what run_analysis reported
    written,    \* the files the current batch invocation wrote
    completed,  \* the immunization table as left by the last two completed run_etl() calls
    app         \* app[p]: the Streamlit script run of session p

vars == <<upstream, db, pc, cont, loc, rv, hist, argv, out, written, completed, app>>

-----------------------------------------------------------------------------
(* Cells *)

None == <<>>
Some(v) == <<v>>
isna(c) == c = <<>>

-----------------------------------------------------------------------------
(* Configuration *)

TABLE_PREFIX == "coverage__"
BetweenLo == 1980
BetweenHi == 2100
DefaultStartYear == 2017
DefaultPreYears == 5
DefaultPostYears == 5

-----------------------------------------------------------------------------
(* Bounds and input universes *)

MaxRows == 2
\* The script runs of one browser session
MaxScriptRuns == 2

Columns == <<"Entity", "Code", "Year", "coverage__mcv1", "coverage__dtp3">>
ColumnsNoYear == <<"Entity", "Code", "coverage__mcv1">>

Entities == {"India", "South Asia"}
\* OWID gives regions no ISO code
CodeOf(e) == IF e = "India" THEN Some("IND") ELSE None

Frame(cols, rows) == [parseable |-> TRUE, columns |-> cols, rows |-> rows]
Garbage == [parseable |-> FALSE, columns |-> <<>>, rows |-> <<>>]
EmptyFrame == Frame(<<>>, <<>>)

SeqsUpTo(S, n) == UNION {[1..k -> S] : k \in 0..n}

\* Rows that vary the entity and the cells at an in-range year, and rows that
\* vary the year (missing, below, on and above the limits of the year filter)
RichRows ==
    {<<e, IF isna(e) THEN None ELSE CodeOf(e[1]), Some(1980), c[1], c[2]>> :
        e \in {None} \cup {Some(x) : x \in Entities},
        c \in {<<Some(50), Some(90)>>, <<None, Some(90)>>, <<Some(50), None>>}}
    \cup
    {<<Some("India"), Some("IND"), y, c[1], c[2]>> :
        y \in {None, Some(1979), Some(2100), Some(2101)},
        c \in {<<Some(50), Some(90)>>, <<None, Some(90)>>}}
RichFrames == {Frame(Columns, rows) : rows \in SeqsUpTo(RichRows, MaxRows)}

MalformedBodies ==
    {Garbage,
     Frame(ColumnsNoYear, <<>>),
     Frame(ColumnsNoYear, << <<Some("India"), Some("IND"), Some(50)>> >>)}

-----------------------------------------------------------------------------
(* Transform: etl_pipeline.py lines 56-64 *)

startswith(c, p) == Len(c) >= Len(p) /\ SubSeq(c, 1, Len(p)) = p

coverage_cols(df) == SelectSeq(df.columns, LAMBDA c : startswith(c, TABLE_PREFIX))

HasColumn(df, name) == \E i \in 1..Len(df.columns) : df.columns[i] = name
ColumnIndex(df, name) == CHOOSE i \in 1..Len(df.columns) : df.columns[i] = name

\* melt raises KeyError when an id_var is not a column
MeltRaises(df) == ~HasColumn(df, "Entity") \/ ~HasColumn(df, "Year")

\* One output row per (value column, input row), value columns outermost.
MeltStripsPrefix(df, value_vars) ==
    LET n == Len(df.rows)
        ei == ColumnIndex(df, "Entity")
        yi == ColumnIndex(df, "Year")
    IN  [k \in 1..(n * Len(value_vars)) |->
            LET c == value_vars[((k - 1) \div n) + 1]
                r == df.rows[((k - 1) % n) + 1]
            IN  [Entity |-> r[ei], Year |-> r[yi],
                 antigen |-> Some(SubSeq(c, Len(TABLE_PREFIX) + 1, Len(c))),
                 coverage_pct |-> r[ColumnIndex(df, c)]]]

melt(df, value_vars) ==
    LET n == Len(df.rows)
        ei == ColumnIndex(df, "Entity")
        yi == ColumnIndex(df, "Year")
    IN  [k \in 1..(n * Len(value_vars)) |->
            LET c == value_vars[((k - 1) \div n) + 1]
                r == df.rows[((k - 1) % n) + 1]
            IN  [Entity |-> r[ei], Year |-> r[yi],
                 antigen |-> Some(c),
                 coverage_pct |-> r[ColumnIndex(df, c)]]]

\* dropna() drops a row with a NaN in any of its columns
dropna(rows) ==
    SelectSeq(rows, LAMBDA r : ~isna(r.Entity) /\ ~isna(r.Year)
                               /\ ~isna(r.antigen) /\ ~isna(r.coverage_pct))

rename(rows) ==
    [k \in 1..Len(rows) |->
        [country |-> rows[k].Entity, year |-> rows[k].Year,
         antigen |-> rows[k].antigen, coverage_pct |-> rows[k].coverage_pct]]

BetweenExclusive(c, lo, hi) == ~isna(c) /\ lo < c[1] /\ c[1] < hi

\* Series.between is inclusive on both sides and False for NaN
between(c, lo, hi) == ~isna(c) /\ lo <= c[1] /\ c[1] <= hi

Tidy(df) ==
    SelectSeq(rename(dropna(melt(df, coverage_cols(df)))),
              LAMBDA r : between(r.year, BetweenLo, BetweenHi))

-----------------------------------------------------------------------------
(* The store: vaccination.db with the tables owid_raw and immunization *)

NoTable == [present |-> FALSE, pk |-> FALSE, rows |-> <<>>]
NoRaw == [present |-> FALSE, df |-> EmptyFrame]
NoDb == [exists |-> FALSE, raw |-> NoRaw, clean |-> NoTable]

\* df.to_sql(TABLE_RAW, conn, if_exists="replace", index=False)
ToSqlReplace(df) == [present |-> TRUE, df |-> df]

\* DROP TABLE IF EXISTS immunization
SqlDropIfExists(t) == NoTable

\* CREATE TABLE immunization (..., PRIMARY KEY (country, antigen, year)):
\* "table immunization already exists" when it does
SqlCreateRaises(t) == t.present
SqlCreate == [present |-> TRUE, pk |-> TRUE, rows |-> <<>>]

\* SQLite takes NULLs in the columns of such a primary key for distinct
SameKey(r, s) ==
    /\ ~isna(r.country) /\ ~isna(r.antigen) /\ ~isna(r.year)
    /\ r.country = s.country /\ r.antigen = s.antigen /\ r.year = s.year

KeysUnique(rows) ==
    \A i, j \in 1..Len(rows) : i < j => ~SameKey(rows[i], rows[j])

\* df_tidy.to_sql(TABLE_CLEAN, conn, if_exists="append", index=False): pandas
\* creates the table itself (with no key) when it is missing; the INSERTs run
\* in one transaction, rolled back on IntegrityError
ToSqlAppendRaises(t, rows) == t.present /\ t.pk /\ ~KeysUnique(t.rows \o rows)
ToSqlAppend(t, rows) ==
    IF t.present THEN [t EXCEPT !.rows = t.rows \o rows]
    ELSE [present |-> TRUE, pk |-> FALSE, rows |-> rows]

\* The store left by a completed run_etl() on body f
LoadedDb(f) ==
    [exists |-> TRUE, raw |-> ToSqlReplace(f),
     clean |-> ToSqlAppend(SqlCreate, Tidy(f))]

-----------------------------------------------------------------------------
(* run_etl: etl_pipeline.py lines 49-89 (streamlit_app.py lines 49-82) *)

Procs == {1, 2}

HttpStatuses == {200, 503}
\* Response.raise_for_status()
RaiseForStatusIgnored(status) == FALSE
raise_for_status(status) == 400 <= status /\ status < 600

\* pd.read_csv raises ParserError / EmptyDataError on a body that is no CSV
ReadCsvRaises(body) == ~body.parseable

NoLocals == [resp |-> [status |-> 0, body |-> Garbage], df |-> EmptyFrame, df_tidy |-> <<>>]
NoHist == [entry |-> NoDb, outcome |-> "none", status |-> 0, body |-> Garbage, gets |-> 0]

\* The statements of run_etl in order
EtlNextAppendOnly(l) ==
    CASE l = "etl_get"       -> "etl_read"
      [] l = "etl_read"      -> "etl_transform"
      [] l = "etl_transform" -> "etl_connect"
      [] l = "etl_connect"   -> "etl_load_raw"
      [] l = "etl_load_raw"  -> "etl_insert"
      [] l = "etl_drop"      -> "etl_create"
      [] l = "etl_create"    -> "etl_insert"
      [] l = "etl_insert"    -> "etl_return"

EtlNext(l) ==
    CASE l = "etl_get"       -> "etl_read"
      [] l = "etl_read"      -> "etl_transform"
      [] l = "etl_transform" -> "etl_connect"
      [] l = "etl_connect"   -> "etl_load_raw"
      [] l = "etl_load_raw"  -> "etl_drop"
      [] l = "etl_drop"      -> "etl_create"
      [] l = "etl_create"    -> "etl_insert"
      [] l = "etl_insert"    -> "etl_return"

\* Entering run_etl() from a call site whose next statement is k
CallEtl(p, k) ==
    /\ pc' = [pc EXCEPT ![p] = "etl_get"]
    /\ cont' = [cont EXCEPT ![p] = k]
    /\ loc' = [loc EXCEPT ![p] = NoLocals]
    /\ rv' = [rv EXCEPT ![p] = "none"]
    /\ hist' = [hist EXCEPT ![p] = [NoHist EXCEPT !.entry = db]]

\* An exception leaves run_etl and its caller: neither entry point catches it
Raise(p) ==
    /\ pc' = [pc EXCEPT ![p] = "crashed"]
    /\ rv' = [rv EXCEPT ![p] = "raised"]
    /\ loc' = [loc EXCEPT ![p] = NoLocals]

Step(p) == pc' = [pc EXCEPT ![p] = EtlNext(pc[p])]

\* line 51: resp = requests.get(OWID_URL, timeout=60)
EtlGet(p) ==
    /\ pc[p] = "etl_get"
    /\ \/ \* Timeout or ConnectionError
          /\ hist' = [hist EXCEPT ![p].outcome = "timeout", ![p].gets = @ + 1]
          /\ Raise(p)
       \/ \E st \in HttpStatuses, body \in {upstream, Garbage} :
            /\ st = 200 => body = upstream
            /\ hist' = [hist EXCEPT ![p].outcome = "response", ![p].status = st,
                                     ![p].body = body, ![p].gets = @ + 1]
            /\ loc' = [loc EXCEPT ![p].resp = [status |-> st, body |-> body]]
            /\ Step(p)
            /\ UNCHANGED rv
    /\ UNCHANGED <<upstream, db, cont, argv, out, written, completed, app>>

\* lines 52-53: resp.raise_for_status(); df = pd.read_csv(io.BytesIO(resp.content))
EtlRead(p) ==
    /\ pc[p] = "etl_read"
    /\ IF raise_for_status(loc[p].resp.status) \/ ReadCsvRaises(loc[p].resp.body)
       THEN Raise(p)
       ELSE /\ loc' = [loc EXCEPT ![p].df = loc[p].resp.body]
            /\ Step(p)
            /\ UNCHANGED rv
    /\ UNCHANGED <<upstream, db, cont, hist, argv, out, written, completed, app>>

\* lines 56-64: coverage_cols, melt, dropna, rename, between
EtlTransform(p) ==
    /\ pc[p] = "etl_transform"
    /\ IF MeltRaises(loc[p].df)
       THEN Raise(p)
       ELSE /\ loc' = [loc EXCEPT ![p].df_tidy = Tidy(loc[p].df)]
            /\ Step(p)
            /\ UNCHANGED rv
    /\ UNCHANGED <<upstream, db, cont, hist, argv, out, written, completed, app>>

\* lines 67-68: sqlite3.connect creates the file when it is missing
EtlConnect(p) ==
    /\ pc[p] = "etl_connect"
    /\ db' = [db EXCEPT !.exists = TRUE]
    /\ Step(p)
    /\ UNCHANGED <<upstream, cont, loc, rv, hist, argv, out, written, completed, app>>

\* line 70
EtlLoadRaw(p) ==
    /\ pc[p] = "etl_load_raw"
    /\ db' = [db EXCEPT !.raw = ToSqlReplace(loc[p].df)]
    /\ Step(p)
    /\ UNCHANGED <<upstream, cont, loc, rv, hist, argv, out, written, completed, app>>

\* line 72; sqlite3 commits a DDL statement as it runs
EtlDrop(p) ==
    /\ pc[p] = "etl_drop"
    /\ db' = [db EXCEPT !.clean = SqlDropIfExists(db.clean)]
    /\ Step(p)
    /\ UNCHANGED <<upstream, cont, loc, rv, hist, argv, out, written, completed, app>>

\* lines 73-83
EtlCreate(p) ==
    /\ pc[p] = "etl_create"
    /\ IF SqlCreateRaises(db.clean)
       THEN Raise(p) /\ UNCHANGED db
       ELSE /\ db' = [db EXCEPT !.clean = SqlCreate]
            /\ Step(p)
            /\ UNCHANGED <<loc, rv>>
    /\ UNCHANGED <<upstream, cont, hist, argv, out, written, completed, app>>

\* line 84; pandas commits the INSERTs itself, or rolls them back
EtlInsert(p) ==
    /\ pc[p] = "etl_insert"
    /\ IF ToSqlAppendRaises(db.clean, loc[p].df_tidy)
       THEN Raise(p) /\ UNCHANGED db
       ELSE /\ db' = [db EXCEPT !.clean = ToSqlAppend(db.clean, loc[p].df_tidy)]
            /\ Step(p)
            /\ UNCHANGED <<loc, rv>>
    /\ UNCHANGED <<upstream, cont, hist, argv, out, written, completed, app>>

\* lines 85-89: conn.commit(); conn.close(); return True
EtlReturn(p) ==
    /\ pc[p] = "etl_return"
    /\ pc' = [pc EXCEPT ![p] = cont[p]]
    /\ rv' = [rv EXCEPT ![p] = "True"]
    /\ loc' = [loc EXCEPT ![p] = NoLocals]
    /\ completed' = <<completed[2], db.clean>>
    /\ UNCHANGED <<upstream, db, cont, hist, argv, out, written, app>>

EtlStep(p) ==
    \/ EtlGet(p)
    \/ EtlRead(p)
    \/ EtlTransform(p)
    \/ EtlConnect(p)
    \/ EtlLoadRaw(p)
    \/ EtlDrop(p)
    \/ EtlCreate(p)
    \/ EtlInsert(p)
    \/ EtlReturn(p)

-----------------------------------------------------------------------------
(* run_analysis: etl_pipeline.py lines 95-166 *)

\* ORDER BY year: ascending, NULLs first, ties in rowid order
YearLeq(a, b) == isna(a) \/ (~isna(b) /\ a[1] <= b[1])

RECURSIVE InsertByYear(_, _)
InsertByYear(sorted, r) ==
    IF sorted = <<>> THEN <<r>>
    ELSE IF YearLeq(sorted[Len(sorted)].year, r.year) THEN Append(sorted, r)
    ELSE Append(InsertByYear(SubSeq(sorted, 1, Len(sorted) - 1), r), sorted[Len(sorted)])

RECURSIVE OrderByYear(_)
OrderByYear(rows) ==
    IF rows = <<>> THEN <<>>
    ELSE InsertByYear(OrderByYear(SubSeq(rows, 1, Len(rows) - 1)), rows[Len(rows)])

\* WHERE country = ? AND antigen = ?  (a NULL column never equals a parameter)
Where(rows, country, antigen) ==
    SelectSeq(rows, LAMBDA r : r.country = Some(country) /\ r.antigen = Some(antigen))

Project(rows) ==
    [k \in 1..Len(rows) |-> [year |-> rows[k].year, coverage_pct |-> rows[k].coverage_pct]]

\* pandas raises DatabaseError ("no such table") when the table is missing
QueryRaises(t) == ~t.present

QueryCoverageUnordered(t, country, antigen) == Project(Where(t.rows, country, antigen))

\* lines 98-107: SELECT year, coverage_pct FROM immunization WHERE ... ORDER BY year
QueryCoverage(t, country, antigen) == OrderByYear(Project(Where(t.rows, country, antigen)))

\* lines 113-116; a comparison with NaN is False
BeforeRowsThroughCampaign(series, start_year, pre_years) ==
    SelectSeq(series, LAMBDA r : /\ ~isna(r.year)
                                 /\ r.year[1] >= start_year - pre_years
                                 /\ r.year[1] <= start_year)

BeforeRows(series, start_year, pre_years) ==
    SelectSeq(series, LAMBDA r : /\ ~isna(r.year)
                                 /\ r.year[1] >= start_year - pre_years
                                 /\ r.year[1] <= start_year - 1)

\* lines 117-120
AfterRows(series, start_year, post_years) ==
    SelectSeq(series, LAMBDA r : /\ ~isna(r.year)
                                 /\ r.year[1] >= start_year
                                 /\ r.year[1] <= start_year + post_years)

\* line 125
EnoughEitherWindow(before_vals, after_vals) == Len(before_vals) > 1 \/ Len(after_vals) > 1
Enough(before_vals, after_vals) == Len(before_vals) > 1 /\ Len(after_vals) > 1

\* str.replace(" ", "_")
RECURSIVE ReplaceSpaces(_)
ReplaceSpaces(s) ==
    IF Len(s) = 0 THEN ""
    ELSE (IF SubSeq(s, 1, 1) = " " THEN "_" ELSE SubSeq(s, 1, 1))
            \o ReplaceSpaces(SubSeq(s, 2, Len(s)))

\* lines 141 and 159
OutCsv(country, antigen) == ReplaceSpaces("coverage_" \o country \o "_" \o antigen \o ".csv")
OutPng(country, antigen) == ReplaceSpaces("plot_" \o country \o "_" \o antigen \o ".png")

NoOut == [kind |-> "none", series |-> <<>>, before |-> <<>>, after |-> <<>>]

\* What run_analysis reports and writes, given the series it read
Analysis(series, country, antigen, start_year, pre_years, post_years) ==
    LET before == BeforeRows(series, start_year, pre_years)
        after == AfterRows(series, start_year, post_years)
    IN  IF series = <<>>
        THEN [report |-> [kind |-> "no_data", series |-> series,
                          before |-> <<>>, after |-> <<>>],
              files |-> {}]
        ELSE IF Enough(before, after)
        THEN [report |-> [kind |-> "result", series |-> series,
                          before |-> before, after |-> after],
              files |-> {OutCsv(country, antigen), OutPng(country, antigen)}]
        ELSE [report |-> [kind |-> "not_enough", series |-> series,
                          before |-> before, after |-> after],
              files |-> {}]

-----------------------------------------------------------------------------
(* The batch entry point: etl_pipeline.py lines 172-184 *)

\* argparse gives None for an option that is not given; "" is falsy too
Truthy(c) == ~isna(c) /\ c[1] /= ""

\* line 181: run_etl()
Main(p) ==
    /\ pc[p] = "main"
    /\ CallEtl(p, "main_branch")
    /\ UNCHANGED <<upstream, db, argv, out, written, completed, app>>

\* lines 183-184: if args.country and args.antigen: run_analysis(...)
MainBranch(p) ==
    /\ pc[p] = "main_branch"
    /\ IF Truthy(argv.country) /\ Truthy(argv.antigen)
       THEN IF QueryRaises(db.clean)
            THEN /\ pc' = [pc EXCEPT ![p] = "crashed"]
                 /\ UNCHANGED <<out, written>>
            ELSE LET a == Analysis(QueryCoverage(db.clean, argv.country[1], argv.antigen[1]),
                                   argv.country[1], argv.antigen[1],
                                   argv.start_year, argv.pre_years, argv.post_years)
                 IN  /\ out' = a.report
                     /\ written' = written \cup a.files
                     /\ pc' = [pc EXCEPT ![p] = "exit"]
       ELSE /\ pc' = [pc EXCEPT ![p] = "exit"]
            /\ UNCHANGED <<out, written>>
    /\ UNCHANGED <<upstream, db, cont, loc, rv, hist, argv, completed, app>>

\* The program is started again with the same command line
Relaunch(p) ==
    /\ pc[p] \in {"exit", "crashed"}
    /\ p = 1
    /\ pc' = [pc EXCEPT ![p] = "main"]
    /\ rv' = [rv EXCEPT ![p] = "none"]
    /\ hist' = [hist EXCEPT ![p] = NoHist]
    /\ out' = NoOut
    /\ written' = {}
    /\ UNCHANGED <<upstream, db, cont, loc, argv, completed, app>>

Args(c, a, s, pre, post) ==
    [country |-> c, antigen |-> a, start_year |-> s, pre_years |-> pre, post_years |-> post]

\* refresh: the run was triggered by the refresh button; button: the page shows
\* the button; calls: the run_etl() calls of the run; existed: whether
\* vaccination.db existed when the run started; shown: the kind of report on
\* the page; runs: the script runs of the session so far
NoApp == [refresh |-> FALSE, button |-> FALSE, calls |-> 0, existed |-> FALSE,
          shown |-> "none", runs |-> 0]

InitCommon(start) ==
    /\ pc = start
    /\ cont = [p \in Procs |-> "off"]
    /\ loc = [p \in Procs |-> NoLocals]
    /\ rv = [p \in Procs |-> "none"]
    /\ hist = [p \in Procs |-> NoHist]
    /\ out = NoOut
    /\ written = {}
    /\ completed = <<NoTable, NoTable>>

\* An older snapshot, loaded by an earlier run
OldFrame ==
    Frame(Columns, << <<Some("India"), Some("IND"), Some(1990), Some(10), None>>,
                      <<Some("India"), Some("IND"), Some(1980), Some(10), Some(20)>> >>)
PriorDbs == {NoDb, LoadedDb(OldFrame)}

RichArgs ==
    {Args(None, None, DefaultStartYear, DefaultPreYears, DefaultPostYears),
     Args(Some("India"), Some("coverage__mcv1"), DefaultStartYear, DefaultPreYears, DefaultPostYears),
     Args(Some("South Asia"), Some("mcv1"), DefaultStartYear, DefaultPreYears, DefaultPostYears)}

Init ==
    /\ upstream \in RichFrames \cup MalformedBodies
    /\ db \in PriorDbs
    /\ argv \in RichArgs
    /\ InitCommon([p \in Procs |-> IF p = 1 THEN "main" ELSE "off"])
    /\ app = [p \in Procs |-> NoApp]

Next ==
    \/ Main(1)
    \/ EtlStep(1)
    \/ MainBranch(1)
    \/ Relaunch(1)

Spec == Init /\ [][Next]_vars

-----------------------------------------------------------------------------
(* The batch program on whole time series *)

SeriesYears == {1980, 1981, 1982, 2015, 2016, 2017, 2018, 2019, 2020}

CoverageAt(y) ==
    CASE y = 1980 -> 55 [] y = 1981 -> 56 [] y = 1982 -> 58
      [] y = 2015 -> 60 [] y = 2016 -> 62 [] y = 2017 -> 65
      [] y = 2018 -> 80 [] y = 2019 -> 85 [] y = 2020 -> 88

\* The rows of a series, latest year first (OWID's order is not relied on)
RECURSIVE SeriesRows(_, _)
SeriesRows(e, years) ==
    IF years = {} THEN <<>>
    ELSE LET y == CHOOSE m \in years : \A z \in years : z <= m
         IN  << <<Some(e), CodeOf(e), Some(y), Some(CoverageAt(y)), None>> >>
                \o SeriesRows(e, years \ {y})

SeriesFrames == {Frame(Columns, SeriesRows("South Asia", Y)) : Y \in SUBSET SeriesYears}

BatchArgs ==
    {Args(c, a, w[1], w[2], w[3]) :
        c \in {None, Some("India"), Some("South Asia")},
        a \in {None, Some("coverage__mcv1")},
        w \in {<<1981, 5, 5>>, <<2018, 2, 2>>}}

InitBatch ==
    /\ upstream \in SeriesFrames
    /\ db = NoDb
    /\ argv \in BatchArgs
    /\ InitCommon([p \in Procs |-> IF p = 1 THEN "main" ELSE "off"])
    /\ app = [p \in Procs |-> NoApp]

SpecBatch == InitBatch /\ [][Next]_vars

-----------------------------------------------------------------------------
(* The interactive entry point: streamlit_app.py.  Streamlit runs the script *)
(* top to bottom on every interaction, each browser session in a thread of   *)
(* its own.                                                                  *)

\* A visit, a widget change or a click on the refresh button starts a script run
AppRun(p) ==
    /\ pc[p] = "app_wait"
    /\ app[p].runs < MaxScriptRuns
    /\ \E clicked \in (IF app[p].button THEN BOOLEAN ELSE {FALSE}) :
        app' = [app EXCEPT ![p] = [refresh |-> clicked, button |-> FALSE, calls |-> 0,
                                   existed |-> db.exists, shown |-> "none",
                                   runs |-> app[p].runs + 1]]
    /\ pc' = [pc EXCEPT ![p] = "app_top"]
    /\ rv' = [rv EXCEPT ![p] = "none"]
    /\ hist' = [hist EXCEPT ![p] = NoHist]
    /\ UNCHANGED <<upstream, db, cont, loc, argv, out, written, completed>>

\* lines 11-14: from etl_pipeline import run_etl; run_etl()
AppTop(p) ==
    /\ pc[p] = "app_top"
    /\ CallEtl(p, "app_bootstrap")
    /\ app' = [app EXCEPT ![p].calls = @ + 1]
    /\ UNCHANGED <<upstream, db, argv, out, written, completed>>

\* lines 99-102: if not os.path.exists(DB_PATH): run_etl()
AppBootstrap(p) ==
    /\ pc[p] = "app_bootstrap"
    /\ IF ~db.exists
       THEN /\ CallEtl(p, "app_refresh")
            /\ app' = [app EXCEPT ![p].calls = @ + 1]
       ELSE /\ pc' = [pc EXCEPT ![p] = "app_refresh"]
            /\ UNCHANGED <<cont, loc, rv, hist, app>>
    /\ UNCHANGED <<upstream, db, argv, out, written, completed>>

\* lines 107-109: if st.sidebar.button(...): run_etl()
AppRefresh(p) ==
    /\ pc[p] = "app_refresh"
    /\ IF app[p].refresh
       THEN /\ CallEtl(p, "app_load")
            /\ app' = [app EXCEPT ![p].calls = @ + 1, ![p].button = TRUE]
       ELSE /\ pc' = [pc EXCEPT ![p] = "app_load"]
            /\ app' = [app EXCEPT ![p].button = TRUE]
            /\ UNCHANGED <<cont, loc, rv, hist>>
    /\ UNCHANGED <<upstream, db, argv, out, written, completed>>

\* SELECT DISTINCT country, antigen FROM immunization
DistinctPairs(t) ==
    {<<r.country, r.antigen>> : r \in {t.rows[k] : k \in 1..Len(t.rows)}}

\* lines 129-282: the selectboxes offer the pairs of the table; the series of
\* the chosen pair is read and, when it is not empty, compared with the sidebar's
\* defaults
AppLoad(p) ==
    /\ pc[p] = "app_load"
    /\ IF QueryRaises(db.clean)
       THEN /\ pc' = [pc EXCEPT ![p] = "crashed"]
            /\ UNCHANGED app
       ELSE /\ pc' = [pc EXCEPT ![p] = "app_wait"]
            /\ IF \E q \in DistinctPairs(db.clean) : q[1] /= None /\ q[2] /= None
               THEN \E q \in DistinctPairs(db.clean) :
                        /\ q[1] /= None /\ q[2] /= None
                        /\ app' = [app EXCEPT ![p].shown =
                                Analysis(QueryCoverage(db.clean, q[1][1], q[2][1]),
                                         q[1][1], q[2][1], DefaultStartYear,
                                         DefaultPreYears, DefaultPostYears).report.kind]
               ELSE app' = [app EXCEPT ![p].shown = "no_data"]
    /\ UNCHANGED <<upstream, db, cont, loc, rv, hist, argv, out, written, completed>>

\* Streamlit shows the exception; the session waits for the next interaction
AppError(p) ==
    /\ pc[p] = "crashed"
    /\ pc' = [pc EXCEPT ![p] = "app_wait"]
    /\ UNCHANGED <<upstream, db, cont, loc, rv, hist, argv, out, written, completed, app>>

Snapshot2018 == Frame(Columns, SeriesRows("India", {2015, 2016, 2017, 2018}))
Snapshot2017 == Frame(Columns, SeriesRows("South Asia", {2016, 2017}))
AppFrames == {Snapshot2017, Snapshot2018}

\* OWID publishes its next snapshot
Publish ==
    /\ upstream = Snapshot2017
    /\ upstream' = Snapshot2018
    /\ UNCHANGED <<db, pc, cont, loc, rv, hist, argv, out, written, completed, app>>

\* One browser session, from its first visit
InitApp ==
    /\ upstream \in AppFrames
    /\ db \in {NoDb} \cup {LoadedDb(f) : f \in AppFrames}
    /\ argv = Args(None, None, DefaultStartYear, DefaultPreYears, DefaultPostYears)
    /\ InitCommon([p \in Procs |-> IF p = 1 THEN "app_wait" ELSE "off"])
    /\ app = [p \in Procs |-> NoApp]

NextApp ==
    \/ \E p \in Procs :
        \/ AppRun(p)
        \/ AppTop(p)
        \/ AppBootstrap(p)
        \/ AppRefresh(p)
        \/ AppLoad(p)
        \/ AppError(p)
        \/ EtlStep(p)
    \/ Publish

SpecApp == InitApp /\ [][NextApp]_vars

\* Two browser sessions on a loaded store, each with its page rendered by an
\* earlier script run and one run to go
InitConc ==
    /\ upstream \in AppFrames
    /\ db \in {LoadedDb(f) : f \in AppFrames}
    /\ argv = Args(None, None, DefaultStartYear, DefaultPreYears, DefaultPostYears)
    /\ InitCommon([p \in Procs |-> "app_wait"])
    /\ app = [p \in Procs |-> [NoApp EXCEPT !.button = TRUE, !.runs = MaxScriptRuns - 1]]

SpecConc == InitConc /\ [][NextApp]_vars

-----------------------------------------------------------------------------
(* Properties of the transform *)

Range(f) == {f[k] : k \in DOMAIN f}
Count(f, x) == Cardinality({k \in DOMAIN f : f[k] = x})

StripPrefix(c) == SubSeq(c, Len(TABLE_PREFIX) + 1, Len(c))

\* p has left the transform of the run_etl() call it is in
Transformed(p) ==
    pc[p] \in {"etl_connect", "etl_load_raw", "etl_drop", "etl_create", "etl_insert", "etl_return"}

\* The records to look at: df_tidy once it is computed, and the immunization
\* table once p's insert has filled it
Produced(p) ==
    Range(loc[p].df_tidy) \cup (IF pc[p] = "etl_return" THEN Range(db.clean.rows) ELSE {})

\* Record r comes from column c of df: some row has r's country, year and value in c
SourcedFrom(r, df, c) ==
    \E i \in 1..Len(df.rows) :
        /\ r.country = df.rows[i][ColumnIndex(df, "Entity")]
        /\ r.year = df.rows[i][ColumnIndex(df, "Year")]
        /\ r.coverage_pct = df.rows[i][ColumnIndex(df, c)]

\* C1 as stated: every record the transform produces, and every record
\* persisted from it, carries as antigen the name of the coverage column its
\* value comes from with the prefix "coverage__" removed.
C1_AntigenStripped ==
    Transformed(1) =>
        \A r \in Produced(1) :
            \E c \in Range(coverage_cols(loc[1].df)) :
                SourcedFrom(r, loc[1].df, c) /\ r.antigen = Some(StripPrefix(c))

\* C1 as amended: every record the transform produces, and every record
\* persisted from it, carries as antigen the full name of the coverage column
\* its value comes from, prefix "coverage__" included.
C1_AntigenIsColumnName ==
    Transformed(1) =>
        \A r \in Produced(1) :
            \E c \in Range(coverage_cols(loc[1].df)) :
                /\ SourcedFrom(r, loc[1].df, c)
                /\ r.antigen = Some(c)
                /\ startswith(c, TABLE_PREFIX)

C1_Witness ==
    /\ pc[1] = "etl_return"
    /\ \E r \in Range(db.clean.rows) :
        r.antigen = Some("coverage__mcv1") /\ r.coverage_pct = Some(50)
    /\ \E r \in Range(db.clean.rows) :
        r.antigen = Some("coverage__dtp3") /\ r.coverage_pct = Some(90)

\* The (row, coverage column) pairs of df
Pairs(df) == (1..Len(df.rows)) \X Range(coverage_cols(df))
Cell(df, i, c) == df.rows[i][ColumnIndex(df, c)]
EntityOf(df, i) == df.rows[i][ColumnIndex(df, "Entity")]
YearOf(df, i) == df.rows[i][ColumnIndex(df, "Year")]

\* What a record carries besides its antigen
Carried(r) == [country |-> r.country, year |-> r.year, coverage_pct |-> r.coverage_pct]
CarriedOf(df, i, c) ==
    [country |-> EntityOf(df, i), year |-> YearOf(df, i), coverage_pct |-> Cell(df, i, c)]

CellAndYearQualify(df, i, c) ==
    /\ Cell(df, i, c) /= None
    /\ YearOf(df, i) /= None
    /\ 1980 <= YearOf(df, i)[1] /\ YearOf(df, i)[1] <= 2100

\* df_tidy holds, for each qualifying pair, one record of its own and nothing else
OneRecordPerPair(tidy, df, Qualifies(_, _, _)) ==
    LET carried == [k \in 1..Len(tidy) |-> Carried(tidy[k])]
        wanted == {q \in Pairs(df) : Qualifies(df, q[1], q[2])}
    IN  \A x \in Range(carried) \cup {CarriedOf(df, q[1], q[2]) : q \in wanted} :
            Count(carried, x) =
                Cardinality({q \in wanted : CarriedOf(df, q[1], q[2]) = x})

\* C2 as stated: the transform emits exactly one record for each (row,
\* coverage column) pair whose cell is non-null and whose year lies in
\* [1980, 2100], carrying the row's entity, the row's year and the cell's
\* value, and no other record.
C2_OnePerNonNullCell ==
    Transformed(1) => OneRecordPerPair(loc[1].df_tidy, loc[1].df, CellAndYearQualify)

AmendedQualify(df, i, c) == CellAndYearQualify(df, i, c) /\ EntityOf(df, i) /= None

\* C2 as amended: the transform emits exactly one record for each (row,
\* coverage column) pair whose cell and whose entity are non-null and whose
\* year lies in [1980, 2100], carrying the row's entity, the row's year and the
\* cell's value, and no other record.
C2_OnePerCompletePair ==
    Transformed(1) => OneRecordPerPair(loc[1].df_tidy, loc[1].df, AmendedQualify)

\* One row yields two records, the other is dropped for its year
C2_Witness ==
    /\ pc[1] = "etl_connect"
    /\ Len(loc[1].df.rows) = 2
    /\ Len(loc[1].df_tidy) = 2
    /\ \E i \in 1..2 : YearOf(loc[1].df, i) = Some(2101) /\ Cell(loc[1].df, i, "coverage__dtp3") /= None
    /\ \E i \in 1..2 : YearOf(loc[1].df, i) = Some(2100)

-----------------------------------------------------------------------------
(* Properties of the store *)

QueryCountries == {"India", "South Asia", "Atlantis"}
QueryAntigens == {"coverage__mcv1", "coverage__dtp3", "mcv1"}

StrictlyAscending(series) ==
    \A k \in 1..(Len(series) - 1) :
        /\ series[k].year /= None /\ series[k + 1].year /= None
        /\ series[k].year[1] < series[k + 1].year[1]

\* The (year, coverage_pct) pairs a CoverageTable holds for (country, antigen)
PairsHeld(table, country, antigen) ==
    {<<r.year, r.coverage_pct>> : r \in {x \in Range(table) :
        x.country = Some(country) /\ x.antigen = Some(antigen)}}

\* C3: once the load of df_tidy is complete, the query for any (country,
\* antigen) raises nothing and returns exactly the (year, coverage_pct) pairs
\* df_tidy holds for it, each once, in strictly ascending year order; for a
\* pair with no rows it returns the empty sequence.
C3_RoundTrip ==
    pc[1] = "etl_return" =>
        /\ ~QueryRaises(db.clean)
        /\ \A c \in QueryCountries, a \in QueryAntigens :
            LET series == QueryCoverage(db.clean, c, a)
                held == PairsHeld(loc[1].df_tidy, c, a)
            IN  /\ {<<series[k].year, series[k].coverage_pct>> : k \in 1..Len(series)} = held
                /\ Len(series) = Cardinality(held)
                /\ StrictlyAscending(series)
                /\ (held = {} => series = <<>>)

\* The table was filled latest year first, and holds nothing for Atlantis
C3_Witness ==
    /\ pc[1] = "etl_return"
    /\ Len(QueryCoverage(db.clean, "India", "coverage__mcv1")) = 2
    /\ QueryCoverage(db.clean, "India", "coverage__mcv1")
         /= QueryCoverageUnordered(db.clean, "India", "coverage__mcv1")
    /\ QueryCoverage(db.clean, "Atlantis", "coverage__mcv1") = <<>>

\* p's run_etl() call has just returned True
JustCompleted(p) == pc[p] = "main_branch" /\ rv[p] = "True"

\* C4: whatever the store held before, a completed run_etl() leaves in
\* immunization the transform of the upstream snapshot and nothing else, no
\* row twice, and two completed runs on the same snapshot leave identical
\* tables.
C4_Idempotent ==
    JustCompleted(1) =>
        /\ db.clean.present
        /\ db.clean.rows = Tidy(upstream)
        /\ KeysUnique(db.clean.rows)
        /\ (completed[1].present => completed[1] = db.clean)

\* The second completed run, over a store whose first run replaced older content
C4_Witness ==
    /\ JustCompleted(1)
    /\ completed[1].present
    /\ Len(db.clean.rows) >= 2
    /\ db.raw.df = upstream

\* The GET of p's run_etl() call failed, or what it returned cannot be parsed
\* or reshaped
InputFailure(p) ==
    \/ hist[p].outcome = "timeout"
    \/ /\ hist[p].outcome = "response"
       /\ \/ ~(200 <= hist[p].status /\ hist[p].status <= 299)
          \/ ~hist[p].body.parseable
          \/ "Entity" \notin Range(hist[p].body.columns)
          \/ "Year" \notin Range(hist[p].body.columns)

\* C7: when the fetch or the parse/reshape fails, run_etl does not get past
\* the transform: the error ends the call, which does not return True, issued
\* a single GET, and leaves owid_raw and immunization as they were at entry.
C7_FailureLeavesStore ==
    InputFailure(1) =>
        /\ pc[1] \in {"etl_read", "etl_transform", "crashed"}
        /\ rv[1] /= "True"
        /\ (pc[1] = "crashed" => rv[1] = "raised")
        /\ hist[1].gets = 1
        /\ db.raw = hist[1].entry.raw
        /\ db.clean = hist[1].entry.clean

\* A body with no Year column, fetched with status 200 over a loaded store
C7_Witness ==
    /\ pc[1] = "crashed"
    /\ hist[1].outcome = "response" /\ hist[1].status = 200
    /\ hist[1].body.parseable /\ MeltRaises(hist[1].body)
    /\ hist[1].entry.clean.present
    /\ db = hist[1].entry

-----------------------------------------------------------------------------
(* Properties of the comparison and of the batch entry point *)

\* run_analysis was called by this invocation and has returned
Analysed == pc[1] = "exit" /\ out.kind /= "none"

YearsIn(series, lo, hi) ==
    {k \in 1..Len(series) :
        series[k].year /= None /\ lo <= series[k].year[1] /\ series[k].year[1] <= hi}

NBefore == Cardinality(YearsIn(out.series, argv.start_year - argv.pre_years, argv.start_year - 1))
NAfter == Cardinality(YearsIn(out.series, argv.start_year, argv.start_year + argv.post_years))

YearsOf(rows) == {rows[k].year[1] : k \in 1..Len(rows)}
ValuesOf(rows) == {rows[k].coverage_pct[1] : k \in 1..Len(rows)}

\* C5 as stated: for every series the analysis reports "not enough data", with
\* nothing computed or written, if and only if the before window or the after
\* window holds fewer than 2 observations.
C5_NotEnoughIffSmallWindow ==
    Analysed => (out.kind = "not_enough" <=> (NBefore < 2 \/ NAfter < 2))

\* C5 as amended: for every non-empty series the analysis reports "not enough
\* data", with nothing computed or written, if and only if the before window
\* or the after window holds fewer than 2 observations; for an empty series it
\* reports "no data found" instead.  A series that starts at 1980, compared at
\* campaign year 1981 with 5 years before, has one before observation and is
\* reported "not enough data".
C5_NotEnoughIffSmallWindowNonEmpty ==
    Analysed =>
        /\ out.series /= <<>> =>
            /\ out.kind = "not_enough" <=> (NBefore < 2 \/ NAfter < 2)
            /\ out.kind = "result" <=> (NBefore >= 2 /\ NAfter >= 2)
            /\ out.kind = "not_enough" => written = {}
        /\ out.series = <<>> => out.kind = "no_data"
        /\ (/\ out.series /= <<>>
            /\ 1980 \in YearsOf(out.series)
            /\ argv.start_year = 1981 /\ argv.pre_years = 5)
           => (NBefore = 1 /\ out.kind = "not_enough")

\* One observation before 1981, three from 1981 on
C5_Witness ==
    /\ Analysed
    /\ out.kind = "not_enough"
    /\ argv.start_year = 1981 /\ argv.pre_years = 5
    /\ YearsOf(out.series) \cap (1976..1986) = {1980, 1981, 1982}
    /\ Len(out.after) = 2

\* C6: the before window holds exactly the observations with
\* start - pre <= year <= start - 1 and the after window exactly those with
\* start <= year <= start + post; no observation is in both and the campaign
\* year is in the after window.  For the years 2015..2020 compared at 2018 with
\* 2 years before and after, before is {2016, 2017} and after is
\* {2018, 2019, 2020}.
C6_Windows ==
    (Analysed /\ out.kind \in {"result", "not_enough"}) =>
        LET s == out.series
            lo == argv.start_year - argv.pre_years
            hi == argv.start_year + argv.post_years
        IN  /\ Range(out.before) = {s[k] : k \in YearsIn(s, lo, argv.start_year - 1)}
            /\ Range(out.after) = {s[k] : k \in YearsIn(s, argv.start_year, hi)}
            /\ Len(out.before) = Cardinality(YearsIn(s, lo, argv.start_year - 1))
            /\ Len(out.after) = Cardinality(YearsIn(s, argv.start_year, hi))
            /\ Range(out.before) \cap Range(out.after) = {}
            /\ argv.start_year \notin YearsOf(out.before)
            /\ (argv.start_year \in YearsOf(s) => argv.start_year \in YearsOf(out.after))
            /\ (/\ YearsOf(s) = 2015..2020
                /\ argv.start_year = 2018 /\ argv.pre_years = 2 /\ argv.post_years = 2)
               => /\ YearsOf(out.before) = {2016, 2017}
                  /\ ValuesOf(out.before) = {62, 65}
                  /\ YearsOf(out.after) = {2018, 2019, 2020}
                  /\ ValuesOf(out.after) = {80, 85, 88}

C6_Witness ==
    /\ Analysed
    /\ out.kind = "result"
    /\ YearsOf(out.series) = 2015..2020
    /\ argv.start_year = 2018 /\ argv.pre_years = 2 /\ argv.post_years = 2
    /\ YearsOf(out.before) = {2016, 2017}

BothSupplied == argv.country /= None /\ argv.antigen /= None

\* C9: the batch program analyses only after run_etl() has returned; it
\* analyses only when country and antigen are both supplied; whenever both are
\* supplied it has written coverage_<country>_<antigen>.csv and
\* plot_<country>_<antigen>.png (spaces as underscores) by the time it exits,
\* and when either is missing it has written nothing.
C9_BatchWritesFiles ==
    /\ out.kind /= "none" => (rv[1] = "True" /\ BothSupplied)
    /\ pc[1] = "main_branch" => rv[1] = "True"
    /\ pc[1] = "exit" =>
        /\ BothSupplied =>
            written = {ReplaceSpaces("coverage_" \o argv.country[1] \o "_" \o argv.antigen[1] \o ".csv"),
                       ReplaceSpaces("plot_" \o argv.country[1] \o "_" \o argv.antigen[1] \o ".png")}
        /\ ~BothSupplied => written = {}

-----------------------------------------------------------------------------
(* Properties of the interactive entry point *)

\* C8: a script run makes one run_etl() call if vaccination.db was absent when
\* it started, one more if it was triggered by the refresh button, and no
\* other: none at all when the store was there and no refresh was asked for.
C8_EtlOnlyOnBootstrapOrRefresh ==
    \A p \in Procs :
        (pc[p] = "app_wait" /\ app[p].runs > 0 /\ rv[p] /= "raised") =>
            app[p].calls = (IF app[p].existed THEN 0 ELSE 1)
                           + (IF app[p].refresh THEN 1 ELSE 0)

\* p has replaced owid_raw and not yet filled immunization
InStoreSteps(p) == pc[p] \in {"etl_drop", "etl_create", "etl_insert"}

\* C10: no two run_etl() calls are in their store steps at once, and once a
\* run has completed, every state shows an immunization table that exists,
\* keeps its primary key and holds the whole transform of one snapshot: never
\* no table, never the empty table between DROP and INSERT, never rows of two
\* runs.
C10_AtomicReplace ==
    /\ \A p, q \in Procs : (p /= q /\ InStoreSteps(p)) => ~InStoreSteps(q)
    /\ completed[2].present =>
        /\ db.clean.present
        /\ db.clean.pk
        /\ \E f \in AppFrames : db.clean.rows = Tidy(f)

\* What a session that is about to read the table can be shown
C10_ReaderSeesNoTable ==
    \A p \in Procs : pc[p] = "app_load" => db.clean.present

C10_ReaderSeesMixedRows ==
    \A p \in Procs : pc[p] = "app_load" =>
        (db.clean.present => \E f \in AppFrames : db.clean.rows = Tidy(f))

====
